---- MODULE Spec2Model ----
(***************************************************************************)
(* Model of coldfusion/driver_commands.py (class DriverCommands): the      *)
(* address codec (_qport, _portid, _parse_lport, _linecard_port_lane), the *)
(* connection commands (map_bidi, map_uni, map_tap, map_clear,             *)
(* map_clear_to, set_attribute_value) with the HTTP helpers                *)
(* (chassis_post, chassis_put, _handle_error), and the discovery           *)
(* (get_resource_description).                                             *)
(*                                                                         *)
(* Python strings are sequences of one-character strings, so that split,   *)
(* find, replace, int() and format() are computed and not assumed.         *)
(* A Python exception is the name of its class.                            *)
(***************************************************************************)
EXTENDS Integers, Sequences, FiniteSets, TLC

VARIABLES
    token,          \* _parse_lport: the argument
    parsed,         \* _parse_lport: the outcome of the call
    call,           \* connection commands: the last command, its requests, its outcome
    device,         \* discovery: what the chassis answers (slots, ports, flows)
    pc,             \* discovery: position in get_resource_description
    lc_i,           \* discovery: the index `lc` of the first loop
    _blades,        \* discovery: the dict _blades, linecard number -> (port id -> Port)
    resources,      \* discovery: the Blade and Port objects created, in creation order
    todo,           \* discovery: linecards the second loop has not yet visited
    edges,          \* discovery: the add_mapping calls made, in order
    result          \* discovery: what the call returned or raised

vars == <<token, parsed, call, device, pc, lc_i, _blades, resources, todo, edges, result>>

----------------------------------------------------------------------------
(* Bounds *)

MaxTokLen == 6      \* longest string handed to _parse_lport in SpecParse
MaxDsts == 2        \* longest dst_ports list of a connection command
MaxSlots == 3       \* longest chassis_json["Linecards"]
MaxPorts == 2       \* most ports, in all, of a chassis with no cross-connects
MaxMapPorts == 1    \* most ports of a linecard of a chassis with cross-connects
MaxEgress == 2      \* most entries of a port's Egress list

----------------------------------------------------------------------------
(* Python strings *)

Digits == <<"0", "1", "2", "3", "4", "5", "6", "7", "8", "9">>

IsDigit(c) == \E d \in 1..10 : Digits[d] = c

DigitVal(c) == (CHOOSE d \in 1..10 : Digits[d] = c) - 1

RECURSIVE Str(_)
\* str(n) / "{0}".format(n), n >= 0
Str(n) == IF n < 10 THEN <<Digits[n + 1]>> ELSE Str(n \div 10) \o <<Digits[(n % 10) + 1]>>

\* "{0:02}".format(n), n >= 0
Fmt02(n) == IF n < 10 THEN <<"0">> \o Str(n) ELSE Str(n)

\* int(s) succeeds: over the characters modelled, a non-empty run of digits
IsInt(s) == Len(s) > 0 /\ \A i \in 1..Len(s) : IsDigit(s[i])

RECURSIVE IntOf(_)
\* int(s) when IsInt(s)
IntOf(s) == IF Len(s) = 0 THEN 0
            ELSE 10 * IntOf(SubSeq(s, 1, Len(s) - 1)) + DigitVal(s[Len(s)])

\* s.find(c): 0-based index of the first c, -1 when absent
Find(s, c) == IF \E i \in 1..Len(s) : s[i] = c
              THEN (CHOOSE i \in 1..Len(s) : s[i] = c /\ \A j \in 1..(i - 1) : s[j] # c) - 1
              ELSE -1

RECURSIVE Split(_, _)
\* s.split(c)
Split(s, c) == LET i == Find(s, c) IN
               IF i < 0 THEN <<s>>
               ELSE <<SubSeq(s, 1, i)>> \o Split(SubSeq(s, i + 2, Len(s)), c)

\* s.replace(a, b) for one-character a and b
Replace(s, a, b) == [i \in 1..Len(s) |-> IF s[i] = a THEN b ELSE s[i]]

\* sequences over S of length 0..n
SeqsUpTo(S, n) == UNION {[1..k -> S] : k \in 0..n}

----------------------------------------------------------------------------
(* Address codec *)

\* the lane "is given": Python's `lane and lane>=1` with lane None or an int;
\* None is modelled as 0, which is as falsy as None
_qport(port, lane) == IF lane # 0 /\ lane >= 1
                      THEN Fmt02(port) \o <<"_">> \o Str(lane)
                      ELSE Fmt02(port)

\* parts[1], parts[2] of port.split("/"); IndexError with fewer than 3 parts
_portid(port) == LET parts == Split(port, "/") IN
                 IF Len(parts) < 3 THEN [exc |-> "IndexError", val |-> <<>>]
                 ELSE [exc |-> "none",
                       val |-> parts[2] \o <<".">> \o Replace(parts[3], "_", ":")]

\* `lc, port_lane = str.split(".")` raises ValueError unless there are exactly
\* two parts; any number of parts of port_lane.split(":") other than 2 takes
\* the else branch (port = parts[0], lane = "-1"); int() raises ValueError
_parse_lport(str) ==
    LET dot == Split(str, ".") IN
    IF Len(dot) # 2 THEN [exc |-> "ValueError", val |-> <<>>]
    ELSE LET parts == Split(dot[2], ":") IN
         IF Len(parts) = 2
         THEN IF IsInt(dot[1]) /\ IsInt(parts[1]) /\ IsInt(parts[2])
              THEN [exc |-> "none", val |-> <<IntOf(dot[1]), IntOf(parts[1]), IntOf(parts[2])>>]
              ELSE [exc |-> "ValueError", val |-> <<>>]
         ELSE IF IsInt(dot[1]) /\ IsInt(parts[1])
              THEN [exc |-> "none", val |-> <<IntOf(dot[1]), IntOf(parts[1]), -1>>]
              ELSE [exc |-> "ValueError", val |-> <<>>]

\* returns (linecard, port, lane): linecard and port are strings, lane is an
\* int or None (modelled as -1: a lane of 0 is an int, and falsy too)
_linecard_port_lane(port) ==
    LET parts == Split(port, "/") IN
    IF Len(parts) < 3 THEN [exc |-> "IndexError", linecard |-> <<>>, port |-> <<>>, lane |-> -1]
    ELSE LET idx == Find(parts[3], "_") IN
         IF idx >= 0
         THEN LET l == SubSeq(parts[3], idx + 2, Len(parts[3])) IN
              IF IsInt(l)
              THEN [exc |-> "none", linecard |-> parts[2],
                    port |-> SubSeq(parts[3], 1, idx), lane |-> IntOf(l)]
              ELSE [exc |-> "ValueError", linecard |-> <<>>, port |-> <<>>, lane |-> -1]
         ELSE [exc |-> "none", linecard |-> parts[2], port |-> parts[3], lane |-> -1]

----------------------------------------------------------------------------
(* _parse_lport on its own: SpecParse *)

TokChars == {"1", "2", "3", ".", ":"}

NotCalled == [exc |-> "not called", val |-> <<>>]

Idle == [op |-> "idle", src |-> <<>>, dsts |-> <<>>, value |-> <<>>,
         reqs |-> <<>>, status |-> 0, error |-> "",
         outcome |-> [exc |-> "none", description |-> "", status |-> 0]]

NoDevice == [Linecards |-> <<>>]

DiscoveryUnused ==
    /\ device = NoDevice
    /\ pc = "unused"
    /\ lc_i = 0
    /\ _blades = <<>>
    /\ resources = <<>>
    /\ todo = {}
    /\ edges = <<>>
    /\ result = "none"

InitParse ==
    /\ token \in SeqsUpTo(TokChars, MaxTokLen)
    /\ parsed = NotCalled
    /\ call = Idle
    /\ DiscoveryUnused

ParseLport ==
    /\ parsed = NotCalled
    /\ parsed' = _parse_lport(token)
    /\ UNCHANGED <<token, call, device, pc, lc_i, _blades, resources, todo, edges, result>>

NextParse == ParseLport

SpecParse == InitParse /\ [][NextParse]_vars

\* number of occurrences of the character c in s
Count(s, c) == Cardinality({i \in 1..Len(s) : s[i] = c})

LcNums == 1..3
PortNums == {1, 2, 3, 12, 13, 21}
LaneNums == 1..3

\* C2: _parse_lport returns (linecard, port, lane) for "<linecard>.<port>:<lane>"
\* and (linecard, port, -1) for "<linecard>.<port>", and every token with no
\* '.', more than one '.' or more than one ':' fails with an error instead of
\* being parsed with a defaulted lane.
C2_ParseLportRejectsWrongSeparatorCount ==
    parsed # NotCalled =>
        /\ \A l \in LcNums, p \in PortNums :
              /\ token = Str(l) \o <<".">> \o Str(p)
                    => parsed = [exc |-> "none", val |-> <<l, p, -1>>]
              /\ \A n \in LaneNums :
                    token = Str(l) \o <<".">> \o Str(p) \o <<":">> \o Str(n)
                       => parsed = [exc |-> "none", val |-> <<l, p, n>>]
        /\ (Count(token, ".") # 1 \/ Count(token, ":") > 1) => parsed.exc # "none"

----------------------------------------------------------------------------
(* HTTP helpers.  A response is its status code and what r.json()["Error"] *)
(* gives: the Error string, or one of the two ways it raises.              *)

NotJson == "<body is not JSON>"
NoErrorField == "<JSON without Error>"
Statuses == {200, 201, 204, 304, 400, 500}
ErrorFields == {NotJson, NoErrorField, "port busy"}

Returned == [exc |-> "none", description |-> "", status |-> 0]
Raised(e, d, st) == [exc |-> e, description |-> d, status |-> st]

\* Response.raise_for_status() raises HTTPError for 400 <= status < 600 and
\* returns None otherwise, and `raise None` is a TypeError
_handle_error(status, error) ==
    IF error \in {NotJson, NoErrorField}
    THEN IF status >= 400 /\ status < 600
         THEN Raised("HTTPError", "", status)
         ELSE Raised("TypeError", "", 0)
    ELSE Raised("ColdFusionException", error, 0)

\* the outcome of chassis_post / chassis_put once the response is in:
\* r.json() on 200 (ValueError when the body is not JSON), {} on 204
HttpOutcome(status, error) ==
    IF status = 200
    THEN IF error = NotJson THEN Raised("ValueError", "", 0) ELSE Returned
    ELSE IF status = 204 THEN Returned
    ELSE _handle_error(status, error)

chassis_post(api, body) == [method |-> "POST", prefix |-> "chassis/do/", api |-> api, body |-> body]

chassis_put(api, body) == [method |-> "PUT", prefix |-> "chassis/", api |-> api, body |-> body]

----------------------------------------------------------------------------
(* Connection commands: SpecConn *)

None == <<"<None>">>

MapApi == <<"m", "a", "p">>
UnmapApi == <<"u", "n", "m", "a", "p">>
LinecardsApi == <<"l", "i", "n", "e", "c", "a", "r", "d", "s", "/">>
PortsApi == <<"/", "p", "o", "r", "t", "s", "/">>

MapBody(direction, pairs) ==
    [keys |-> {"Direction", "Pairs"}, Direction |-> direction, Pairs |-> pairs, Speed |-> <<>>]

SpeedBody(v) ==
    [keys |-> {"Speed"}, Direction |-> "", Pairs |-> <<>>, Speed |-> v]

\* the external address "<device>/<linecard>/<port>[_<lane>]"; lane 0: no lane
Device == <<"h">>
ExternalAddress(l, p, n) ==
    Device \o <<"/">> \o Str(l) \o <<"/">> \o Str(p)
       \o (IF n > 0 THEN <<"_">> \o Str(n) ELSE <<>>)

AddrLinecards == {1, 2}
AddrPorts == {3, 21}
MapPorts == {21}
MapLanes == {0, 2}
AttrLanes == 0..4
MapAddrs == {ExternalAddress(l, p, n) : l \in AddrLinecards, p \in MapPorts, n \in MapLanes}
AttrAddrs == {ExternalAddress(l, p, n) : l \in AddrLinecards, p \in AddrPorts, n \in AttrLanes}
Speeds == {<<"1", "0", "0", "0", "0">>, <<"4", "0", "G">>}

\* a command that sent its one request and got (status, error) back
Sent(op, src, dsts, value, req, status, error) ==
    [op |-> op, src |-> src, dsts |-> dsts, value |-> value, reqs |-> <<req>>,
     status |-> status, error |-> error, outcome |-> HttpOutcome(status, error)]

\* a command that raised before any request
Failed(op, src, dsts, value, e) ==
    [op |-> op, src |-> src, dsts |-> dsts, value |-> value, reqs |-> <<>>,
     status |-> 0, error |-> "", outcome |-> Raised(e, "", 0)]

\* the loop building port_pairs: dict(A=a, B=_portid(dst_port)) per dst_port
Pairs(a, dsts) == [i \in 1..Len(dsts) |-> [A |-> a, B |-> _portid(dsts[i]).val]]

ConnUnchanged == UNCHANGED <<token, parsed, device, pc, lc_i, _blades, resources, todo, edges, result>>

map_bidi ==
    /\ call = Idle
    /\ \E src \in MapAddrs, dst \in MapAddrs, status \in Statuses, error \in ErrorFields :
          call' = Sent("map_bidi", src, <<dst>>, <<>>,
                       chassis_post(MapApi, MapBody("TwoWay", Pairs(_portid(src).val, <<dst>>))),
                       status, error)
    /\ ConnUnchanged

MapUniTwoRequests(op, src, dsts, status, error) ==
    [Sent(op, src, dsts, <<>>,
          chassis_post(MapApi, MapBody("OneWay", Pairs(_portid(src).val, dsts))),
          status, error)
     EXCEPT !.reqs = [i \in 1..Len(dsts) |->
                        chassis_post(MapApi, MapBody("OneWay", Pairs(_portid(src).val, <<dsts[i]>>)))]]

\* the body of map_uni, which map_tap calls too
MapUni(op, src, dsts, status, error) ==
    Sent(op, src, dsts, <<>>,
         chassis_post(MapApi, MapBody("OneWay", Pairs(_portid(src).val, dsts))),
         status, error)

map_uni ==
    /\ call = Idle
    /\ \E src \in MapAddrs, dsts \in SeqsUpTo(MapAddrs, MaxDsts),
          status \in Statuses, error \in ErrorFields :
          call' = MapUni("map_uni", src, dsts, status, error)
    /\ ConnUnchanged

map_tap ==
    /\ call = Idle
    /\ \E src \in MapAddrs, dsts \in SeqsUpTo(MapAddrs, MaxDsts),
          status \in Statuses, error \in ErrorFields :
          call' = MapUni("map_tap", src, dsts, status, error)
    /\ ConnUnchanged

MapClearOneWay(dsts, status, error) ==
    Sent("map_clear", <<>>, dsts, <<>>,
         chassis_post(UnmapApi, MapBody("OneWay", Pairs(None, dsts))),
         status, error)

MapClear(dsts, status, error) ==
    Sent("map_clear", <<>>, dsts, <<>>,
         chassis_post(UnmapApi, MapBody("Undefined", Pairs(None, dsts))),
         status, error)

map_clear ==
    /\ call = Idle
    /\ \E dsts \in SeqsUpTo(MapAddrs, MaxDsts), status \in Statuses, error \in ErrorFields :
          call' = MapClear(dsts, status, error)
    /\ ConnUnchanged

MapClearTo(src, dsts, status, error) ==
    Sent("map_clear_to", src, dsts, <<>>,
         chassis_post(UnmapApi, MapBody("OneWay", Pairs(_portid(src).val, dsts))),
         status, error)

map_clear_to ==
    /\ call = Idle
    /\ \E src \in MapAddrs, dsts \in SeqsUpTo(MapAddrs, MaxDsts),
          status \in Statuses, error \in ErrorFields :
          call' = MapClearTo(src, dsts, status, error)
    /\ ConnUnchanged

\* attribute_name is not read.  With a lane that is truthy, `"," * lane-1` is
\* ("," * lane) - 1, a str minus an int: TypeError, before the request.
\* Without one, val = attribute_value; the body is dict(Speed=attribute_value).
SetAttributeValue(cs_address, attribute_value, status, error) ==
    LET a == _linecard_port_lane(cs_address) IN
    IF a.exc # "none" THEN Failed("set_attribute_value", cs_address, <<>>, attribute_value, a.exc)
    ELSE IF a.lane # -1 /\ a.lane # 0
    THEN Failed("set_attribute_value", cs_address, <<>>, attribute_value, "TypeError")
    ELSE Sent("set_attribute_value", cs_address, <<>>, attribute_value,
              chassis_put(LinecardsApi \o a.linecard \o PortsApi \o a.port,
                          SpeedBody(attribute_value)),
              status, error)

set_attribute_value ==
    /\ call = Idle
    /\ \E cs_address \in AttrAddrs, attribute_value \in Speeds,
          status \in Statuses, error \in ErrorFields :
          call' = SetAttributeValue(cs_address, attribute_value, status, error)
    /\ ConnUnchanged

InitConn ==
    /\ call = Idle
    /\ token = <<>>
    /\ parsed = NotCalled
    /\ DiscoveryUnused

NextConn ==
    \/ map_bidi
    \/ map_uni
    \/ map_tap
    \/ map_clear
    \/ map_clear_to
    \/ set_attribute_value

SpecConn == InitConn /\ [][NextConn]_vars

\* what the address "<device>/<linecard>/<port>[_<lane>]" resolves to,
\* "<linecard>.<port>[:<lane>]", from the numbers the address was written with
AddrTuple(a) == CHOOSE t \in AddrLinecards \X AddrPorts \X AttrLanes :
                    ExternalAddress(t[1], t[2], t[3]) = a
Resolved(a) == LET t == AddrTuple(a) IN
               Str(t[1]) \o <<".">> \o Str(t[2])
                  \o (IF t[3] > 0 THEN <<":">> \o Str(t[3]) ELSE <<>>)

OnePost(api, direction) ==
    /\ Len(call.reqs) = 1
    /\ call.reqs[1].method = "POST"
    /\ call.reqs[1].prefix = "chassis/do/"
    /\ call.reqs[1].api = api
    /\ call.reqs[1].body.keys = {"Direction", "Pairs"}
    /\ call.reqs[1].body.Direction = direction
    /\ Len(call.reqs[1].body.Pairs) = Len(call.dsts)

\* C5: every non-2xx response to a request of chassis_post / chassis_put makes
\* the command fail: with ColdFusionException carrying exactly the Error field
\* of a JSON body that has one, and otherwise with a transport error (HTTPError)
\* carrying the status code; the command never returns normally.
C5_NonSuccessRaisesDeviceOrTransportError ==
    (Len(call.reqs) = 1 /\ call.status \notin 200..299) =>
        IF call.error \in {NotJson, NoErrorField}
        THEN call.outcome = Raised("HTTPError", "", call.status)
        ELSE call.outcome = Raised("ColdFusionException", call.error, 0)

\* C6: map_uni(src, dsts), and map_tap alike, issues exactly one POST to map
\* with Direction "OneWay" and one pair per destination, in order, each with
\* A = the resolved src and B = that destination resolved; nothing else is sent.
C6_MapUniOnePostOnePairPerDst ==
    call.op \in {"map_uni", "map_tap"} =>
        /\ OnePost(MapApi, "OneWay")
        /\ \A i \in 1..Len(call.dsts) :
              call.reqs[1].body.Pairs[i] = [A |-> Resolved(call.src), B |-> Resolved(call.dsts[i])]

C6_Witness ==
    /\ call.op = "map_tap"
    /\ Len(call.dsts) = 2
    /\ call.dsts[1] # call.dsts[2]
    /\ call.src = ExternalAddress(1, 21, 2)
    /\ Len(call.reqs) = 1
    /\ call.outcome = Returned

\* C7: map_clear(ports) issues exactly one POST to unmap with Direction
\* "Undefined" and one pair {A: None, B: resolved d} per port d; map_clear_to(src,
\* dsts) issues exactly one POST to unmap with Direction "OneWay" and the pairs
\* {A: resolved src, B: resolved d}.
C7_MapClearUndefinedMapClearToOneWay ==
    /\ call.op = "map_clear" =>
          /\ OnePost(UnmapApi, "Undefined")
          /\ \A i \in 1..Len(call.dsts) :
                call.reqs[1].body.Pairs[i] = [A |-> None, B |-> Resolved(call.dsts[i])]
    /\ call.op = "map_clear_to" =>
          /\ OnePost(UnmapApi, "OneWay")
          /\ \A i \in 1..Len(call.dsts) :
                call.reqs[1].body.Pairs[i] =
                    [A |-> Resolved(call.src), B |-> Resolved(call.dsts[i])]

C7_Witness ==
    /\ call.op = "map_clear"
    /\ call.dsts = <<ExternalAddress(1, 21, 0), ExternalAddress(2, 21, 2)>>
    /\ Len(call.reqs) = 1
    /\ call.outcome = Returned

\* C8: set_attribute_value on a valid port address, lane-qualified (lane 1..4)
\* or not, issues exactly one PUT to linecards/<linecard>/ports/<port> with a
\* Speed body; with a lane the call does not fail before the request is sent.
C8_SetSpeedIssuesOnePut ==
    call.op = "set_attribute_value" =>
        /\ Len(call.reqs) = 1
        /\ call.reqs[1].method = "PUT"
        /\ call.reqs[1].prefix = "chassis/"
        /\ call.reqs[1].api = LinecardsApi \o Str(AddrTuple(call.src)[1])
                                 \o PortsApi \o Str(AddrTuple(call.src)[2])
        /\ call.reqs[1].body.keys = {"Speed"}

----------------------------------------------------------------------------
(* Discovery: get_resource_description.                                    *)
(* The chassis answers the same throughout one call: `device` holds, per   *)
(* slot of chassis_json["Linecards"], whether it is null, the answer to    *)
(* GET linecards/<lc>/ports and the Egress lists of the show-flow answer.  *)

Lanes == 4

PortKinds == {[Type |-> "OPort_CF1", Breakout |-> TRUE],
              [Type |-> "OPort_CF1", Breakout |-> FALSE],
              [Type |-> "EPort", Breakout |-> TRUE],
              [Type |-> "EPort", Breakout |-> FALSE]}

NullSlot == [present |-> FALSE, ports |-> <<>>, egress |-> <<>>]

\* `breakout and ptype=="OPort_CF1"`
IsBreakout(port_json) == port_json.Breakout /\ port_json.Type = "OPort_CF1"

linecards_json == device.Linecards

\* what chassis_get("linecards/{0}/ports".format(lc)) answers, lc 0-based
ports_json(lc) == linecards_json[lc + 1].ports

\* port_serial_number, "{0:02}.{1:01}.{2}".format(lc + 1, port + 1, lane + 1)
SerialNumber(lc, port, lane) ==
    Fmt02(lc + 1) \o <<".">> \o Str(port + 1) \o <<".">> \o Str(lane + 1)

Blade(lc) == [kind |-> "Blade", parent |-> 0, id |-> Str(lc + 1), serial |-> <<"L">>]

Port(lc, port_id, serial) == [kind |-> "Port", parent |-> lc + 1, id |-> port_id, serial |-> serial]

PortObjsLaneZeroBased(lc, port) ==
    IF IsBreakout(ports_json(lc)[port + 1])
    THEN [lane \in 1..Lanes |->
             Port(lc, _qport(port + 1, lane - 1), SerialNumber(lc, port, lane - 1))]
    ELSE <<Port(lc, _qport(port + 1, 0), SerialNumber(lc, port, 0))>>

\* the Port objects one iteration of `for port in range(0, len(ports_json))`
\* creates, in order (port 0-based): 4 for a breakout port, else 1
PortObjs(lc, port) ==
    IF IsBreakout(ports_json(lc)[port + 1])
    THEN [lane \in 1..Lanes |->
             Port(lc, _qport(port + 1, lane), SerialNumber(lc, port, lane - 1))]
    ELSE <<Port(lc, _qport(port + 1, 0), SerialNumber(lc, port, 0))>>

RECURSIVE LinecardPortObjs(_, _)
\* the Port objects of ports 0..n-1 of linecard lc, in creation order
LinecardPortObjs(lc, n) ==
    IF n = 0 THEN <<>> ELSE LinecardPortObjs(lc, n - 1) \o PortObjs(lc, n - 1)

\* the dict filled by `_blades[lc+1][port_id] = port_obj`: a later object
\* with the same port_id replaces an earlier one
PortDict(objs) ==
    [k \in {objs[i].id : i \in 1..Len(objs)} |->
        objs[CHOOSE i \in 1..Len(objs) : objs[i].id = k /\ \A j \in (i + 1)..Len(objs) : objs[j].id # k]]

DiscoveryIdle == token = <<>> /\ parsed = NotCalled /\ call = Idle

DiscoveryStart ==
    /\ pc = "start"
    /\ lc_i = 0
    /\ _blades = <<>>
    /\ resources = <<>>
    /\ todo = {}
    /\ edges = <<>>
    /\ result = "none"
    /\ DiscoveryIdle

UnchangedByDiscovery == UNCHANGED <<token, parsed, call, device>>

\* chassis_json = self.chassis_get(""), and the Chassis object
GetChassis ==
    /\ pc = "start"
    /\ pc' = "build"
    /\ UNCHANGED <<lc_i, _blades, resources, todo, edges, result>>
    /\ UnchangedByDiscovery

BuildSkipsNothing ==
    /\ pc = "build"
    /\ lc_i < Len(linecards_json)
    /\ LET objs == IF linecards_json[lc_i + 1].present
                   THEN LinecardPortObjs(lc_i, Len(ports_json(lc_i))) ELSE <<>> IN
       /\ resources' = resources \o <<Blade(lc_i)>> \o objs
       /\ _blades' = [k \in DOMAIN _blades \cup {lc_i + 1} |->
                         IF k = lc_i + 1 THEN PortDict(objs) ELSE _blades[k]]
    /\ lc_i' = lc_i + 1
    /\ UNCHANGED <<pc, todo, edges, result>>
    /\ UnchangedByDiscovery

\* one iteration of `for lc in range(len(linecards_json))`
BuildLinecard ==
    /\ pc = "build"
    /\ lc_i < Len(linecards_json)
    /\ IF linecards_json[lc_i + 1].present
       THEN LET objs == LinecardPortObjs(lc_i, Len(ports_json(lc_i))) IN
            /\ resources' = resources \o <<Blade(lc_i)>> \o objs
            /\ _blades' = [k \in DOMAIN _blades \cup {lc_i + 1} |->
                              IF k = lc_i + 1 THEN PortDict(objs) ELSE _blades[k]]
       ELSE UNCHANGED <<resources, _blades>>
    /\ lc_i' = lc_i + 1
    /\ UNCHANGED <<pc, todo, edges, result>>
    /\ UnchangedByDiscovery

BeginMappingsBeforeBuildEnds ==
    /\ pc = "build"
    /\ pc' = "map"
    /\ todo' = DOMAIN _blades
    /\ UNCHANGED <<lc_i, _blades, resources, edges, result>>
    /\ UnchangedByDiscovery

\* the first loop is over: `for lc, blade in _blades.items()` begins
BeginMappings ==
    /\ pc = "build"
    /\ lc_i = Len(linecards_json)
    /\ pc' = "map"
    /\ todo' = DOMAIN _blades
    /\ UNCHANGED <<lc_i, _blades, resources, edges, result>>
    /\ UnchangedByDiscovery

Min(a, b) == IF a < b THEN a ELSE b

Raise(acc, e) == [acc EXCEPT !.exc = e]

\* mapped_to.add_mapping(port_obj); a Port is named by its linecard and its id
AddMapping(acc, to_lc, to_id, from_lc, from_id) ==
    [acc EXCEPT !.edges = @ \o <<[mapped_to |-> <<to_lc, to_id>>, port_obj |-> <<from_lc, from_id>>]>>]

BreakoutEntryAnyLane(lc, port, lane, egress_port, acc) ==
    IF acc.exc # "none" THEN acc
    ELSE IF Len(egress_port) = 0 THEN Raise(acc, "IndexError")
    ELSE LET index == Min(lane, Len(egress_port) - 1)
             tok == egress_port[index + 1] IN
         IF tok = None \/ Len(tok) = 0 THEN acc
         ELSE LET r == _parse_lport(tok) IN
              IF r.exc # "none" THEN Raise(acc, r.exc)
              ELSE LET eport_lc == r.val[1]
                       eport_port == r.val[2]
                       eport_lane == IF Len(egress_port) = 1 THEN lane + 1 ELSE r.val[3] IN
                   IF eport_lc \in DOMAIN _blades
                   THEN LET port_id == _qport(eport_port, eport_lane) IN
                        IF port_id \in DOMAIN _blades[eport_lc]
                        THEN AddMapping(acc, eport_lc, port_id, lc, _qport(port + 1, lane + 1))
                        ELSE Raise(acc, "KeyError")
                   ELSE acc

BreakoutEntrySkipsMissingKey(lc, port, lane, egress_port, acc) ==
    IF acc.exc # "none" THEN acc
    ELSE IF Len(egress_port) = 0 THEN Raise(acc, "IndexError")
    ELSE LET index == Min(lane, Len(egress_port) - 1)
             tok == egress_port[index + 1] IN
         IF tok = None \/ Len(tok) = 0 THEN acc
         ELSE LET r == _parse_lport(tok) IN
              IF r.exc # "none" THEN Raise(acc, r.exc)
              ELSE LET eport_lc == r.val[1]
                       eport_port == r.val[2]
                       eport_lane == IF Len(egress_port) = 1 THEN lane + 1 ELSE r.val[3] IN
                   IF eport_lc \in DOMAIN _blades /\ eport_lane = lane + 1
                   THEN LET port_id == _qport(eport_port, eport_lane) IN
                        IF port_id \in DOMAIN _blades[eport_lc]
                        THEN AddMapping(acc, eport_lc, port_id, lc, _qport(port + 1, lane + 1))
                        ELSE acc
                   ELSE acc

\* egress_port[index] on a Python list: index -1 is the last element, and an
\* empty list has none
\* one iteration of `for egress_port in egress` for lane `lane` (0-based) of
\* the breakout port `port` (0-based) of linecard lc (1-based)
BreakoutEntry(lc, port, lane, egress_port, acc) ==
    IF acc.exc # "none" THEN acc
    ELSE IF Len(egress_port) = 0 THEN Raise(acc, "IndexError")
    ELSE LET index == Min(lane, Len(egress_port) - 1)
             tok == egress_port[index + 1] IN
         IF tok = None \/ Len(tok) = 0 THEN acc
         ELSE LET r == _parse_lport(tok) IN
              IF r.exc # "none" THEN Raise(acc, r.exc)
              ELSE LET eport_lc == r.val[1]
                       eport_port == r.val[2]
                       eport_lane == IF Len(egress_port) = 1 THEN lane + 1 ELSE r.val[3] IN
                   IF eport_lc \in DOMAIN _blades /\ eport_lane = lane + 1
                   THEN LET port_id == _qport(eport_port, eport_lane) IN
                        IF port_id \in DOMAIN _blades[eport_lc]
                        THEN AddMapping(acc, eport_lc, port_id, lc, _qport(port + 1, lane + 1))
                        ELSE Raise(acc, "KeyError")
                   ELSE acc

PlainEntryIgnoresLane(lc, port, egress_port, acc) ==
    IF acc.exc # "none" THEN acc
    ELSE IF Len(egress_port) = 0 THEN Raise(acc, "IndexError")
    ELSE IF egress_port[1] = None THEN Raise(acc, "AttributeError")
    ELSE LET eport == _parse_lport(egress_port[1]) IN
         IF eport.exc # "none" THEN Raise(acc, eport.exc)
         ELSE IF eport.val[1] \in DOMAIN _blades
              THEN LET port_id == _qport(eport.val[2], 0) IN
                   IF port_id \in DOMAIN _blades[eport.val[1]]
                   THEN AddMapping(acc, eport.val[1], port_id, lc, _qport(port + 1, 0))
                   ELSE Raise(acc, "KeyError")
              ELSE acc

\* one iteration of `for egress_port in egress` for the non-breakout port
\* `port`: egress_port[0] is parsed (None has no split: AttributeError); the
\* KeyError of the lookup is logged and raised again
PlainEntry(lc, port, egress_port, acc) ==
    IF acc.exc # "none" THEN acc
    ELSE IF Len(egress_port) = 0 THEN Raise(acc, "IndexError")
    ELSE IF egress_port[1] = None THEN Raise(acc, "AttributeError")
    ELSE LET eport == _parse_lport(egress_port[1]) IN
         IF eport.exc # "none" THEN Raise(acc, eport.exc)
         ELSE IF eport.val[1] \in DOMAIN _blades
              THEN LET port_id == _qport(eport.val[2], eport.val[3]) IN
                   IF port_id \in DOMAIN _blades[eport.val[1]]
                   THEN AddMapping(acc, eport.val[1], port_id, lc, _qport(port + 1, 0))
                   ELSE Raise(acc, "KeyError")
              ELSE acc

RECURSIVE BreakoutEntries(_, _, _, _, _, _)
\* the first n entries of egress, for one lane
BreakoutEntries(lc, port, lane, egress, n, acc) ==
    IF n = 0 THEN acc
    ELSE BreakoutEntry(lc, port, lane, egress[n],
                       BreakoutEntries(lc, port, lane, egress, n - 1, acc))

RECURSIVE BreakoutLanes(_, _, _, _, _)
\* lanes 0..n-1 of `for lane in range(4)`
BreakoutLanes(lc, port, egress, n, acc) ==
    IF n = 0 THEN acc
    ELSE BreakoutEntries(lc, port, n - 1, egress, Len(egress),
                         BreakoutLanes(lc, port, egress, n - 1, acc))

RECURSIVE PlainEntries(_, _, _, _, _)
PlainEntries(lc, port, egress, n, acc) ==
    IF n = 0 THEN acc
    ELSE PlainEntry(lc, port, egress[n], PlainEntries(lc, port, egress, n - 1, acc))

\* one iteration of `for port in range(0, num_ports)` of the second loop
PortMappings(lc, port, acc) ==
    LET egress == linecards_json[lc].egress[port + 1] IN
    IF IsBreakout(ports_json(lc - 1)[port + 1])
    THEN BreakoutLanes(lc, port, egress, Lanes, acc)
    ELSE PlainEntries(lc, port, egress, Len(egress), acc)

RECURSIVE LinecardMappings(_, _, _)
\* ports 0..n-1 of linecard lc
LinecardMappings(lc, n, acc) ==
    IF n = 0 THEN acc ELSE PortMappings(lc, n - 1, LinecardMappings(lc, n - 1, acc))

\* one iteration of `for lc, blade in _blades.items()`: a dict's order is not
\* the program's to choose, so any linecard not yet visited may come next.
\* An exception ends get_resource_description.
ConfigureMappings ==
    /\ pc = "map"
    /\ \E lc \in todo :
          LET acc == LinecardMappings(lc, Len(ports_json(lc - 1)),
                                      [exc |-> "none", edges |-> edges]) IN
          /\ edges' = acc.edges
          /\ IF acc.exc = "none"
             THEN todo' = todo \ {lc} /\ UNCHANGED <<pc, result>>
             ELSE pc' = "done" /\ result' = acc.exc /\ UNCHANGED todo
    /\ UNCHANGED <<lc_i, _blades, resources>>
    /\ UnchangedByDiscovery

\* return ResourceDescriptionResponseInfo([chassis])
Return ==
    /\ pc = "map"
    /\ todo = {}
    /\ pc' = "done"
    /\ result' = "ResourceDescriptionResponseInfo"
    /\ UNCHANGED <<lc_i, _blades, resources, todo, edges>>
    /\ UnchangedByDiscovery

Next ==
    \/ GetChassis
    \/ BuildLinecard
    \/ BeginMappings
    \/ ConfigureMappings
    \/ Return

----------------------------------------------------------------------------
(* The chassis discovered *)

\* a linecard slot with the ports ps and nothing mapped
Slot(ps) == [present |-> TRUE, ports |-> ps, egress |-> [i \in 1..Len(ps) |-> <<>>]]

SlotsOf(kinds, maxports) == {NullSlot} \cup {Slot(ps) : ps \in SeqsUpTo(kinds, maxports)}

Topologies(kinds, maxports) ==
    {[Linecards |-> ls] : ls \in SeqsUpTo(SlotsOf(kinds, maxports), MaxSlots)}

RECURSIVE SlotLists(_, _)
\* the lists of n slots with at most t ports in all
SlotLists(n, t) ==
    IF n = 0 THEN {<<>>}
    ELSE UNION {{<<sl>> \o rest : rest \in SlotLists(n - 1, t - Len(sl.ports))} :
                   sl \in SlotsOf(PortKinds, t)}

\* SpecBuild: any chassis of up to MaxSlots slots and MaxPorts ports in all,
\* with no cross-connects
InitBuild ==
    /\ device \in {[Linecards |-> ls] : ls \in UNION {SlotLists(n, MaxPorts) : n \in 0..MaxSlots}}
    /\ DiscoveryStart

SpecBuild == InitBuild /\ [][Next]_vars

\* an egress token "<linecard>.<port>[:<lane>]" as the device writes it;
\* lane 0: no lane
Token(l, p, n) == Str(l) \o <<".">> \o Str(p) \o (IF n > 0 THEN <<":">> \o Str(n) ELSE <<>>)

\* the entries of an Egress list that name port p of linecard l: one token
\* without a lane or with lane 1
OneTokenEntries(l, p) == {<<Token(l, p, n)>> : n \in 0..1}

\* one token with lane 2; one token per lane of the far end; two tokens with
\* the lanes swapped; two tokens without a lane; an empty slot (null, or the
\* empty string) and a token
OtherEntries(l, p) ==
    {<<Token(l, p, 2)>>,
     [n \in 1..Lanes |-> Token(l, p, n)],
     <<Token(l, p, 2), Token(l, p, 1)>>,
     <<Token(l, p, 0), Token(l, p, 0)>>,
     <<None, Token(l, p, 2)>>,
     <<<<>>, Token(l, p, 2)>>}

Destinations == (1..MaxSlots) \X (1..MaxMapPorts)

SingleEntries == UNION {OneTokenEntries(d[1], d[2]) : d \in Destinations}

AllEntries == SingleEntries \cup UNION {OtherEntries(d[1], d[2]) : d \in Destinations}
                 \cup {<<None>>, <<>>}

\* the Egress lists tried: one entry of any kind, or up to MaxEgress entries
\* of one token each
EgressLists == {<<e>> : e \in AllEntries} \cup SeqsUpTo(SingleEntries, MaxEgress)

MapPortKinds == {k \in PortKinds : k.Type = "OPort_CF1" \/ k.Breakout}

WithEgress(ls, l, p, eg) == [Linecards |-> [ls EXCEPT ![l].egress[p] = eg]]

\* the ways one port of the chassis d may report an Egress list
Mapped(d) ==
    UNION {UNION {{WithEgress(d.Linecards, l, p, eg) : eg \in EgressLists} :
                     p \in 1..Len(d.Linecards[l].ports)} :
              l \in 1..Len(d.Linecards)}

\* Spec: any chassis of up to MaxSlots slots and MaxMapPorts ports per
\* linecard in which at most one port reports egress
Init ==
    /\ device \in Topologies(MapPortKinds, MaxMapPorts)
                     \cup UNION {Mapped(d) : d \in Topologies(MapPortKinds, MaxMapPorts)}
    /\ DiscoveryStart

Spec == Init /\ [][Next]_vars

----------------------------------------------------------------------------
(* Claims about discovery *)

Returned_Graph == "ResourceDescriptionResponseInfo"

\* the key of lane n of port p as the spec writes it, "{port:02d}_{lane}",
\* and of a port without lanes (n = 0), "{port:02d}"; p < 10 here
Key(p, n) == <<"0", Digits[p + 1]>> \o (IF n > 0 THEN <<"_", Digits[n + 1]>> ELSE <<>>)

\* the indices of the Port objects created for linecard l whose id names port p
PortEntries(l, p) ==
    {i \in 1..Len(resources) :
        /\ resources[i].kind = "Port"
        /\ resources[i].parent = l
        /\ SubSeq(resources[i].id, 1, 2) = Key(p, 0)}

EndsWith(s, t) == Len(s) >= Len(t) /\ SubSeq(s, Len(s) - Len(t) + 1, Len(s)) = t

\* C9: a port with Type "OPort_CF1" and Breakout set yields exactly 4 Port
\* entries, keyed by lanes 1..4 with serials ending .1 to .4; any other port
\* yields exactly 1 Port entry without a lane, serial ending .1; the port keys
\* of a linecard are unique.
C9_FourLanePortsOrOnePort ==
    \A l \in 1..lc_i :
        linecards_json[l].present =>
            /\ \A p \in 1..Len(linecards_json[l].ports) :
                  LET pj == linecards_json[l].ports[p] IN
                  IF pj.Type = "OPort_CF1" /\ pj.Breakout
                  THEN /\ Cardinality(PortEntries(l, p)) = 4
                       /\ \A n \in 1..4 : \E i \in PortEntries(l, p) :
                             /\ resources[i].id = Key(p, n)
                             /\ EndsWith(resources[i].serial, <<".", Digits[n + 1]>>)
                  ELSE /\ Cardinality(PortEntries(l, p)) = 1
                       /\ \A i \in PortEntries(l, p) :
                             /\ resources[i].id = Key(p, 0)
                             /\ EndsWith(resources[i].serial, <<".", "1">>)
            /\ \A i, j \in 1..Len(resources) :
                  (/\ i # j
                   /\ resources[i].kind = "Port" /\ resources[j].kind = "Port"
                   /\ resources[i].parent = l /\ resources[j].parent = l)
                      => resources[i].id # resources[j].id
            /\ DOMAIN _blades[l] =
                  {resources[i].id : i \in {j \in 1..Len(resources) :
                       resources[j].kind = "Port" /\ resources[j].parent = l}}

C9_Witness ==
    /\ pc = "done"
    /\ \E l \in DOMAIN _blades :
          /\ Len(linecards_json[l].ports) = 2
          /\ IsBreakout(linecards_json[l].ports[1])
          /\ linecards_json[l].ports[2] = [Type |-> "EPort", Breakout |-> TRUE]
          /\ Cardinality(DOMAIN _blades[l]) = 5

\* C10: the Linecards created are as many as the non-null slots, each
\* numbered by the 1-based position of its slot; null slots are skipped
\* without renumbering.
C10_LinecardsAreTheNonNullSlots ==
    LET blades == {i \in 1..Len(resources) : resources[i].kind = "Blade"}
        nonnull == {k \in 1..lc_i : linecards_json[k].present} IN
    /\ Cardinality(blades) = Cardinality(nonnull)
    /\ {resources[i].id : i \in blades} = {<<Digits[k + 1]>> : k \in nonnull}
    /\ DOMAIN _blades = nonnull

C10_Witness ==
    /\ pc = "done"
    /\ Len(linecards_json) = 3
    /\ ~linecards_json[1].present
    /\ linecards_json[2].present
    /\ linecards_json[3].present
    /\ DOMAIN _blades = {2, 3}

\* linecard l is in the topology; it has a port p; that port is a breakout port
Present(l) == l \in 1..Len(linecards_json) /\ linecards_json[l].present
HasPort(l, p) == Present(l) /\ p \in 1..Len(linecards_json[l].ports)
BreakoutPort(l, p) ==
    linecards_json[l].ports[p].Type = "OPort_CF1" /\ linecards_json[l].ports[p].Breakout
EgressOf(l, p) == linecards_json[l].egress[p]
SourcePorts == {s \in (1..MaxSlots) \X (1..MaxMapPorts) : HasPort(s[1], s[2])}

\* the numbers a token was written with: <<linecard, port, lane>>, lane 0
\* for a token without a lane
TokenTuples == (1..MaxSlots) \X (1..MaxMapPorts) \X (0..Lanes)
IsToken(tok) == \E t \in TokenTuples : Token(t[1], t[2], t[3]) = tok
TokenTuple(tok) == CHOOSE t \in TokenTuples : Token(t[1], t[2], t[3]) = tok

\* linecard l has a Port keyed (p, n): lane n of a breakout port, or the
\* port itself (n = 0) when it is not a breakout port
KeyExists(l, p, n) ==
    /\ HasPort(l, p)
    /\ IF n > 0 THEN BreakoutPort(l, p) /\ n <= Lanes ELSE ~BreakoutPort(l, p)

\* the destinations (linecard and key) of the edges recorded from the Port
\* `key` of linecard l, in the order recorded
TargetsFrom(l, key) ==
    LET From(e) == e.port_obj = <<l, key>>
        es == SelectSeq(edges, From) IN
    [i \in 1..Len(es) |-> es[i].mapped_to]

\* an entry of one element that names a port without lanes, or a linecard
\* that is not in the topology
OneElementToPlainPort(entry) ==
    /\ Len(entry) = 1
    /\ IsToken(entry[1])
    /\ LET t == TokenTuple(entry[1]) IN
       \/ ~Present(t[1])
       \/ HasPort(t[1], t[2]) /\ ~BreakoutPort(t[1], t[2])

\* C1: for lane l of a breakout source port whose egress entries have one
\* element naming a non-breakout destination port, the destination lane is
\* taken to be l, an edge is recorded exactly when the destination linecard is
\* in the topology, and discovery does not fail.
C1_BreakoutToPlainPortRecordsEdge ==
    pc = "done" =>
        \A s \in SourcePorts :
            (/\ BreakoutPort(s[1], s[2])
             /\ EgressOf(s[1], s[2]) # <<>>
             /\ \A e \in 1..Len(EgressOf(s[1], s[2])) :
                   OneElementToPlainPort(EgressOf(s[1], s[2])[e]))
            => /\ result = Returned_Graph
               /\ \A e \in 1..Len(EgressOf(s[1], s[2])), n \in 1..Lanes :
                     LET t == TokenTuple(EgressOf(s[1], s[2])[e][1]) IN
                     Present(t[1]) <=>
                        \E i \in 1..Len(edges) :
                            /\ edges[i].port_obj = <<s[1], Key(s[2], n)>>
                            /\ edges[i].mapped_to[1] = t[1]

RECURSIVE PlainTargets(_, _)
\* what the first n entries of the Egress list of a non-breakout port name:
\* per entry whose first token names a linecard of the topology, that
\* linecard and the key of the token's port and lane
PlainTargets(egress, n) ==
    IF n = 0 THEN <<>>
    ELSE LET t == TokenTuple(egress[n][1]) IN
         PlainTargets(egress, n - 1)
            \o (IF Present(t[1]) THEN <<<<t[1], Key(t[2], t[3])>>>> ELSE <<>>)

\* C3 as amended: when discovery returns, a non-breakout source port has one
\* edge per egress entry whose first token names a linecard of the topology,
\* in the order of the entries, each to the Port keyed by the token's port and
\* by the token's lane when it has one.
C3_PlainPortOneEdgePerEntry ==
    (pc = "done" /\ result = Returned_Graph) =>
        \A s \in SourcePorts :
            ~BreakoutPort(s[1], s[2]) =>
                TargetsFrom(s[1], Key(s[2], 0))
                    = PlainTargets(EgressOf(s[1], s[2]), Len(EgressOf(s[1], s[2])))

C3_Witness ==
    /\ pc = "done"
    /\ result = Returned_Graph
    /\ \E s \in SourcePorts :
          /\ ~BreakoutPort(s[1], s[2])
          /\ Len(EgressOf(s[1], s[2])) = 2
          /\ Len(TargetsFrom(s[1], Key(s[2], 0))) = 2
          /\ \E i \in 1..2 : Len(TargetsFrom(s[1], Key(s[2], 0))[i][2]) = 4

\* C3 as claimed: a non-breakout source port uses its first egress entry
\* only, resolved to the key without a lane whatever lane the token carries,
\* so it has at most one edge.
C3_PlainPortFirstEntryOnlyLaneIgnored ==
    (pc = "done" /\ result = Returned_Graph) =>
        \A s \in SourcePorts :
            (~BreakoutPort(s[1], s[2]) /\ EgressOf(s[1], s[2]) # <<>>) =>
                LET t == TokenTuple(EgressOf(s[1], s[2])[1][1]) IN
                TargetsFrom(s[1], Key(s[2], 0))
                    = IF Present(t[1]) THEN <<<<t[1], Key(t[2], 0)>>>> ELSE <<>>

\* the lookups _blades[linecard][key] discovery makes for the source port s,
\* as <<linecard, port, lane>>: for a non-breakout port the first token of
\* each entry; for lane n of a breakout port the token at index
\* min(n-1, len-1) of each entry, when its lane (n for an entry of one
\* element) is n
Lookups(s) ==
    LET egress == EgressOf(s[1], s[2]) IN
    IF BreakoutPort(s[1], s[2])
    THEN {<<TokenTuple(egress[e][Min(n, Len(egress[e]))])[1],
            TokenTuple(egress[e][Min(n, Len(egress[e]))])[2], n>> :
             <<e, n>> \in {x \in (1..Len(egress)) \X (1..Lanes) :
                 /\ Len(egress[x[1]]) >= 1
                 /\ IsToken(egress[x[1]][Min(x[2], Len(egress[x[1]]))])
                 /\ \/ Len(egress[x[1]]) = 1
                    \/ TokenTuple(egress[x[1]][Min(x[2], Len(egress[x[1]]))])[3] = x[2]}}
    ELSE {TokenTuple(egress[e][1]) :
             e \in {x \in 1..Len(egress) : Len(egress[x]) >= 1 /\ IsToken(egress[x][1])}}

MissingLookup ==
    \E s \in SourcePorts : \E t \in Lookups(s) : Present(t[1]) /\ ~KeyExists(t[1], t[2], t[3])

\* C4 as amended: whenever a key that discovery looks up on a linecard of the
\* topology does not exist there, the call raises and returns no chassis; it
\* ends there, without a retry.
C4_MissingLookedUpKeyAborts ==
    /\ MissingLookup => result # Returned_Graph
    /\ result \notin {"none", Returned_Graph} => pc = "done" /\ ~ENABLED Next

C4_Witness ==
    /\ pc = "done"
    /\ result = "KeyError"
    /\ MissingLookup
    /\ \E s \in SourcePorts : BreakoutPort(s[1], s[2]) /\ EgressOf(s[1], s[2]) # <<>>

\* C4 as claimed: whenever any egress token of any port names a linecard of
\* the topology and a key that does not exist on it, the call raises and
\* returns no chassis.
C4_AnyTokenWithMissingKeyAborts ==
    pc = "done" =>
        ((\E s \in SourcePorts :
            \E e \in 1..Len(EgressOf(s[1], s[2])) :
               \E j \in 1..Len(EgressOf(s[1], s[2])[e]) :
                  LET tok == EgressOf(s[1], s[2])[e][j] IN
                  /\ IsToken(tok)
                  /\ Present(TokenTuple(tok)[1])
                  /\ ~KeyExists(TokenTuple(tok)[1], TokenTuple(tok)[2], TokenTuple(tok)[3]))
         => result # Returned_Graph)

\* linecard l has a Port entry with the id `key` among the resources created
PortExists(l, key) ==
    \E i \in 1..Len(resources) :
        /\ resources[i].kind = "Port"
        /\ resources[i].parent = l
        /\ resources[i].id = key

\* the first loop has visited every slot: _blades has every non-null slot,
\* with every key of every port of it
IndexComplete ==
    /\ lc_i = Len(linecards_json)
    /\ DOMAIN _blades = {l \in 1..Len(linecards_json) : Present(l)}
    /\ \A l \in DOMAIN _blades :
          DOMAIN _blades[l] =
             {Key(p, n) : <<p, n>> \in {x \in (1..Len(linecards_json[l].ports)) \X (0..Lanes) :
                                           KeyExists(l, x[1], x[2])}}

\* the edge e is held by the Port a looked-up token of the source port s
\* names, and points at s (at its lane, for a breakout port)
EdgeOnDestination(e) ==
    \E s \in SourcePorts : \E t \in Lookups(s) :
        /\ e.port_obj = <<s[1], Key(s[2], IF BreakoutPort(s[1], s[2]) THEN t[3] ELSE 0)>>
        /\ e.mapped_to = <<t[1], Key(t[2], t[3])>>

EdgesSound ==
    \A i \in 1..Len(edges) :
        /\ PortExists(edges[i].port_obj[1], edges[i].port_obj[2])
        /\ PortExists(edges[i].mapped_to[1], edges[i].mapped_to[2])
        /\ EdgeOnDestination(edges[i])

\* when discovery returns, every looked-up token that names a linecard of
\* the topology has its edge, wherever that linecard is in the slot list
LookupsResolved ==
    (pc = "done" /\ result = Returned_Graph) =>
        \A s \in SourcePorts : \A t \in Lookups(s) :
            Present(t[1]) =>
                \E i \in 1..Len(edges) :
                    /\ edges[i].port_obj
                          = <<s[1], Key(s[2], IF BreakoutPort(s[1], s[2]) THEN t[3] ELSE 0)>>
                    /\ edges[i].mapped_to = <<t[1], Key(t[2], t[3])>>

\* a step of discovery keeps the passes apart: edges change only in the
\* second pass, over a complete and unchanging index; the index changes only
\* before any edge; the first pass is never entered again
PassesOrdered ==
    /\ edges' # edges =>
          pc = "map" /\ IndexComplete /\ _blades' = _blades /\ resources' = resources
    /\ (_blades' # _blades \/ resources' # resources) =>
          pc \in {"start", "build"} /\ edges = <<>> /\ edges' = <<>>
    /\ pc \in {"map", "done"} => pc' \in {"map", "done"}
    /\ pc' \in {"map", "done"} => IndexComplete'

\* C11: within one discover call no edge is resolved or recorded until the
\* Port entries of every non-empty linecard have been created, so a token
\* naming a port of a linecard later in the slot list than the source is
\* resolved against the complete index; every recorded edge has a source and
\* a destination Port that exist among the discovered ports, and is held by
\* the destination, pointing back at the source.
C11_PassesOrderedEdgesOnDestination ==
    [][PassesOrdered /\ EdgesSound' /\ LookupsResolved']_vars

C11_Witness ==
    /\ pc = "done"
    /\ result = Returned_Graph
    /\ \E i \in 1..Len(edges) :
          /\ edges[i].mapped_to[1] > edges[i].port_obj[1]
          /\ PortExists(edges[i].mapped_to[1], edges[i].mapped_to[2])

\* the slot of an entry examined for lane n (1..4): index min(n-1, len-1)
SelectedSlot(entry, n) == entry[IF n <= Len(entry) THEN n ELSE Len(entry)]

\* the entry gives lane n of a breakout source an edge: its selected slot
\* holds a token, of a linecard of the topology, whose lane (n itself when
\* the entry has one element) is n
YieldsEdge(entry, n) ==
    /\ Len(entry) >= 1
    /\ IsToken(SelectedSlot(entry, n))
    /\ Present(TokenTuple(SelectedSlot(entry, n))[1])
    /\ Len(entry) = 1 \/ TokenTuple(SelectedSlot(entry, n))[3] = n

RECURSIVE BreakoutTargets(_, _, _)
\* the destinations the first k entries give lane n, in the order of the
\* entries: the token's linecard and its port keyed with lane n
BreakoutTargets(egress, k, n) ==
    IF k = 0 THEN <<>>
    ELSE BreakoutTargets(egress, k - 1, n)
            \o (IF YieldsEdge(egress[k], n)
                THEN LET t == TokenTuple(SelectedSlot(egress[k], n)) IN <<<<t[1], Key(t[2], n)>>>>
                ELSE <<>>)

IsPrefix(a, b) == Len(a) <= Len(b) /\ a = SubSeq(b, 1, Len(a))

\* C12: for lane l of a breakout source port and each egress entry the slot
\* examined is index min(l-1, len(entry)-1); an edge is recorded only if that
\* slot is non-empty, the destination linecard is known and the destination
\* lane (the parsed one, or l for an entry of one element) is l: every edge
\* from lane l ends on a Port keyed with lane l, an entry of several elements
\* whose selected token has no lane or another lane gives no edge, and when
\* discovery returns the edges of lane l are those of the entries that
\* qualify, one each, in order.
C12_BreakoutLaneEdgesKeepTheLane ==
    \A s \in SourcePorts :
        BreakoutPort(s[1], s[2]) =>
            \A n \in 1..Lanes :
                LET got == TargetsFrom(s[1], Key(s[2], n))
                    qualify == BreakoutTargets(EgressOf(s[1], s[2]), Len(EgressOf(s[1], s[2])), n) IN
                /\ IsPrefix(got, qualify)
                /\ \A i \in 1..Len(got) : EndsWith(got[i][2], <<"_", Digits[n + 1]>>)
                /\ (pc = "done" /\ result = Returned_Graph) => got = qualify

C12_Witness ==
    /\ pc = "done"
    /\ result = Returned_Graph
    /\ \E s \in SourcePorts :
          /\ BreakoutPort(s[1], s[2])
          /\ Len(EgressOf(s[1], s[2])) = 1
          /\ Len(EgressOf(s[1], s[2])[1]) = 2
          /\ TargetsFrom(s[1], Key(s[2], 1)) = <<>>
          /\ Len(TargetsFrom(s[1], Key(s[2], 2))) = 1
          /\ TargetsFrom(s[1], Key(s[2], 3)) = <<>>

====
